---- MODULE Spec2Model ----
(***************************************************************************)
(* Model of src/src/rotation_function.py: the Secrets Manager rotation     *)
(* function for a PostgreSQL password.  One secret, one database.          *)
(*                                                                         *)
(* The state is what the function reads and writes through its two         *)
(* clients: the secret's metadata and version values (boto3                *)
(* secretsmanager client) and the password of each database role           *)
(* (psycopg2).  Every invocation of lambda_handler is one action.          *)
(***************************************************************************)
EXTENDS Integers, Sequences, FiniteSets, TLC

\* ---------------------------------------------------------------- bounds

\* How many distinct passwords exist (generate_password draws one of them).
NumPasswords == 2

\* How many database connections may be open at once before the model stops
\* counting (the function closes each one it opens).
MaxConnections == 2

\* How many createSecret invocations for one token run concurrently.
NumCreators == 2

PasswordPool == <<"pw1", "pw2", "pw3", "pw4">>
Passwords == {PasswordPool[i] : i \in 1..NumPasswords}

\* Version ids the secret may hold, and the tokens an event may carry.
VersionIds == {"v1", "v2"}
Tokens == VersionIds \cup {"v3"}

\* event["Step"]: the four phases and one value that is none of them.
Steps == {"createSecret", "setSecret", "testSecret", "finishSecret", "rotateSecret"}

Labels == {"AWSCURRENT", "AWSPENDING"}
Users == {"app"}
Hosts == {"db"}
None == "None"

\* ------------------------------------------------------- secret payloads

\* json.dumps / json.loads of a flat dict: the text is the list of its
\* (key, value) members; parsing keeps the last value of a repeated key.
FieldOrder == <<"username", "password", "host">>

IsPresent(d, k) == k \in DOMAIN d

json_dumps(d) ==
    LET present == SelectSeq(FieldOrder, LAMBDA k : IsPresent(d, k))
    IN  [i \in 1..Len(present) |-> <<present[i], d[present[i]]>>]

json_loads(s) ==
    LET keys == {s[i][1] : i \in DOMAIN s}
        lastOf(k) == CHOOSE i \in DOMAIN s :
                        /\ s[i][1] = k
                        /\ \A j \in DOMAIN s : s[j][1] = k => j <= i
    IN  [k \in keys |-> s[lastOf(k)][2]]

\* The value of one version as get_secret_value reports it.
Absent == [kind |-> "absent", SecretString |-> <<>>]
Binary == [kind |-> "SecretBinary", SecretString |-> <<>>]
StringValue(s) == [kind |-> "SecretString", SecretString |-> s]

FullDict(p) == [k \in {"username", "password", "host"} |->
                  IF k = "username" THEN "app" ELSE IF k = "password" THEN p ELSE "db"]
Without(d, f) == [k \in DOMAIN d \ {f} |-> d[k]]

\* Payloads a secret may hold before the function runs: complete ones, and
\* ones lacking one field.
InitDicts ==
    {FullDict(p) : p \in Passwords}
      \cup {Without(FullDict("pw1"), f) : f \in {"username", "password", "host"}}

InitValues == {Absent, Binary} \cup {StringValue(json_dumps(d)) : d \in InitDicts}

\* ------------------------------------------------------------------ state

VARIABLES
    rotationEnabled,  \* describe_secret()["RotationEnabled"]
    stages,           \* describe_secret()["VersionIdsToStages"]
    values,           \* version id -> value (get_secret_value)
    db,               \* role -> password the database accepts
    last,             \* the last invocation: event, outcome, calls made, parity
    firstWritten,     \* token -> password of the first put_secret_value for it
    openConnections,  \* connections to the database opened and not closed
    succeeded,        \* the requests (step, token) that have ended without error
    scenario,         \* how far a run create, set, test, finish has come
    creators          \* concurrent create_secret invocations, statement by statement

vars == <<rotationEnabled, stages, values, db, last, firstWritten,
          openConnections, succeeded, scenario, creators>>

store == <<stages, values>>

Carrying(st, label) == {v \in DOMAIN st : label \in st[v]}

\* The secret and the database before the function is invoked: any set of
\* versions, each label on at most one of them and AWSCURRENT and AWSPENDING on
\* different ones, any value under each version, any password in the database.
InitSecret ==
    /\ rotationEnabled \in BOOLEAN
    /\ \E known \in SUBSET VersionIds :
          /\ stages \in [known -> SUBSET Labels]
          /\ \E vals \in [known -> InitValues] :
                values = [t \in Tokens |-> IF t \in known THEN vals[t] ELSE Absent]
    /\ Cardinality(Carrying(stages, "AWSCURRENT")) <= 1
    /\ Cardinality(Carrying(stages, "AWSPENDING")) <= 1
    /\ Carrying(stages, "AWSCURRENT") \cap Carrying(stages, "AWSPENDING") = {}
    /\ db \in [Users -> Passwords]
    /\ last = [step |-> "none", token |-> None, outcome |-> "none", calls |-> <<>>,
               tick |-> 0]
    /\ firstWritten = [t \in Tokens |-> None]
    /\ openConnections = 0
    /\ succeeded = {}
    /\ scenario = 0

\* The concurrent create invocations: none is under way when invocations are
\* taken one at a time.
Creators == 1..NumCreators

Creator(pc, token, current, new_pwd, outcome, wrote) ==
    [pc |-> pc, token |-> token, current |-> current, new_pwd |-> new_pwd,
     outcome |-> outcome, wrote |-> wrote]

Init ==
    /\ InitSecret
    /\ creators = [p \in Creators |-> Creator("idle", None, <<>>, None, "none", FALSE)]

\* ------------------------------------------- the secret store (boto3 client)

\* A result of a read: err is "ok" or the exception raised.
Got(err, value) == [err |-> err, value |-> value]

\* secrets_client.get_secret_value(SecretId, VersionId=..., VersionStage=...):
\* None for a parameter that is not passed.  ResourceNotFoundException when no
\* version matches or the matching version holds no value.
get_secret_value(version_id, stage) ==
    LET matching ==
            {v \in DOMAIN stages :
                /\ version_id # None => v = version_id
                /\ stage # None => stage \in stages[v]
                /\ (version_id = None /\ stage = None) => "AWSCURRENT" \in stages[v]}
    IN  IF \E v \in matching : values[v] # Absent
        THEN Got("ok", values[CHOOSE v \in matching : values[v] # Absent])
        ELSE Got("ResourceNotFoundException", Absent)

\* get_secret_dict(secret_id, stage, version_id): by version id when one is
\* given, else by stage; a binary value is refused; the text is parsed.
get_secret_dict(stage, version_id) ==
    LET resp == IF version_id # None
                THEN get_secret_value(version_id, None)
                ELSE get_secret_value(None, stage)
    IN  IF resp.err # "ok" THEN [err |-> resp.err, dict |-> <<>>]
        ELSE IF resp.value.kind # "SecretString"
             THEN [err |-> "SecretBinaryNotSupported", dict |-> <<>>]
             ELSE [err |-> "ok", dict |-> json_loads(resp.value.SecretString)]

\* put_secret_value of a store that lets a later write for a token replace
\* the value an earlier one left.
put_secret_value_Overwrites(token, text, labels) ==
    [err |-> "ok",
     stages |-> [v \in DOMAIN stages \cup {token} |->
                   IF v = token
                   THEN (IF v \in DOMAIN stages THEN stages[v] ELSE {}) \cup labels
                   ELSE stages[v] \ labels],
     values |-> [values EXCEPT ![token] = StringValue(text)]]

\* secrets_client.put_secret_value(SecretId, ClientRequestToken, SecretString,
\* VersionStages): the version is created under the token and each label is
\* moved to it; a version that already holds this text is left as it is, one
\* that holds another value is not overwritten (ResourceExistsException).
put_secret_value(token, text, labels) ==
    IF values[token] = StringValue(text)
    THEN [err |-> "ok", stages |-> stages, values |-> values]
    ELSE IF values[token] # Absent
    THEN [err |-> "ResourceExistsException", stages |-> stages, values |-> values]
    ELSE [err |-> "ok",
          stages |-> [v \in DOMAIN stages \cup {token} |->
                        IF v = token
                        THEN (IF v \in DOMAIN stages THEN stages[v] ELSE {}) \cup labels
                        ELSE stages[v] \ labels],
          values |-> [values EXCEPT ![token] = StringValue(text)]]

\* update_secret_version_stage without RemoveFromVersionId taking effect: the
\* label is attached to the new version and stays on the old one.
update_secret_version_stage_NoRemove(label, move_to, remove_from) ==
    IF remove_from = None \/ move_to = None
    THEN [err |-> "ParamValidationError", stages |-> stages]
    ELSE IF move_to \notin DOMAIN stages \/ remove_from \notin DOMAIN stages
    THEN [err |-> "ResourceNotFoundException", stages |-> stages]
    ELSE [err |-> "ok",
          stages |-> [v \in DOMAIN stages |->
                        IF v = move_to THEN stages[v] \cup {label} ELSE stages[v]]]

\* update_secret_version_stage without MoveToVersionId taking effect: the
\* label is taken from the old version and attached to none.
update_secret_version_stage_RemoveOnly(label, move_to, remove_from) ==
    IF remove_from = None \/ move_to = None
    THEN [err |-> "ParamValidationError", stages |-> stages]
    ELSE IF move_to \notin DOMAIN stages \/ remove_from \notin DOMAIN stages
    THEN [err |-> "ResourceNotFoundException", stages |-> stages]
    ELSE [err |-> "ok",
          stages |-> [v \in DOMAIN stages |->
                        IF v = remove_from THEN stages[v] \ {label} ELSE stages[v]]]

\* secrets_client.update_secret_version_stage(SecretId, VersionStage,
\* MoveToVersionId, RemoveFromVersionId): one atomic transfer of the label.
\* botocore rejects a None argument before any request is sent; the store
\* rejects a RemoveFromVersionId that does not carry the label.
update_secret_version_stage(label, move_to, remove_from) ==
    IF remove_from = None \/ move_to = None
    THEN [err |-> "ParamValidationError", stages |-> stages]
    ELSE IF move_to \notin DOMAIN stages \/ remove_from \notin DOMAIN stages
    THEN [err |-> "ResourceNotFoundException", stages |-> stages]
    ELSE IF label \notin stages[remove_from]
    THEN [err |-> "InvalidParameterException", stages |-> stages]
    ELSE [err |-> "ok",
          stages |-> [v \in DOMAIN stages |->
                        IF v = move_to THEN stages[v] \cup {label}
                        ELSE IF v = remove_from THEN stages[v] \ {label}
                        ELSE stages[v]]]

\* ------------------------------------------------- the database (psycopg2)

\* get_db_connection(secret_dict): the keyword arguments are evaluated in
\* order (host, port, user, password, dbname), then the server checks the
\* password of the role.
get_db_connection(secret_dict) ==
    IF ~IsPresent(secret_dict, "host") THEN "KeyError"
    ELSE IF ~IsPresent(secret_dict, "username") THEN "KeyError"
    ELSE IF ~IsPresent(secret_dict, "password") THEN "KeyError"
    ELSE IF db[secret_dict["username"]] = secret_dict["password"] THEN "ok"
    ELSE "OperationalError"

\* cur.execute("ALTER USER {username} WITH PASSWORD %s", (new_pwd,)) with
\* autocommit on.
alter_user(username, new_pwd) == [db EXCEPT ![username] = new_pwd]

\* ------------------------------------------------------------- the phases

\* What one handler did: how it ended, the state it left, the client calls it
\* made in order ("connect" for a connection that was opened, "connect_failed"
\* for a psycopg2.connect that raised).
Result(outcome, st, vals, d, calls) ==
    [outcome |-> outcome, stages |-> st, values |-> vals, db |-> d, calls |-> calls]

Unchanged(outcome, calls) == Result(outcome, stages, values, db, calls)

\* The copy left out: a payload holding the new password alone.
with_password_Only(current_dict, new_pwd) == [k \in {"password"} |-> new_pwd]

\* pending_dict = current_dict.copy(); pending_dict["password"] = new_pwd
with_password(current_dict, new_pwd) ==
    [k \in DOMAIN current_dict \cup {"password"} |->
        IF k = "password" THEN new_pwd ELSE current_dict[k]]

\* Variants of create_secret, each a slip it could contain.
\* The look-up of an existing AWSPENDING value left out:
create_secret_NoExistenceCheck(token, new_pwd) ==
    LET current == get_secret_dict("AWSCURRENT", None)
        reads == <<"get_secret_value">>
    IN  IF current.err # "ok" THEN Unchanged(current.err, reads)
        ELSE IF ~IsPresent(current.dict, "password")
        THEN Unchanged("MissingBaseCredential", reads)
        ELSE
        LET put == put_secret_value(token,
                                    json_dumps(with_password(current.dict, new_pwd)),
                                    {"AWSPENDING"})
        IN  Result(put.err, put.stages, put.values, db,
                   Append(reads, "put_secret_value"))

\* The test for a password in AWSCURRENT left out:
create_secret_NoPasswordCheck(token, new_pwd) ==
    IF get_secret_value(token, "AWSPENDING").err = "ok"
    THEN Unchanged("ok", <<"get_secret_value">>)
    ELSE
    LET current == get_secret_dict("AWSCURRENT", None)
        reads == <<"get_secret_value", "get_secret_value">>
    IN  IF current.err # "ok" THEN Unchanged(current.err, reads)
        ELSE
        LET put == put_secret_value(token,
                                    json_dumps(with_password(current.dict, new_pwd)),
                                    {"AWSPENDING"})
        IN  Result(put.err, put.stages, put.values, db,
                   Append(reads, "put_secret_value"))

\* The new version written with VersionStages=["AWSCURRENT"]:
create_secret_AsCurrent(token, new_pwd) ==
    IF get_secret_value(token, "AWSPENDING").err = "ok"
    THEN Unchanged("ok", <<"get_secret_value">>)
    ELSE
    LET current == get_secret_dict("AWSCURRENT", None)
        reads == <<"get_secret_value", "get_secret_value">>
    IN  IF current.err # "ok" THEN Unchanged(current.err, reads)
        ELSE IF ~IsPresent(current.dict, "password")
        THEN Unchanged("MissingBaseCredential", reads)
        ELSE
        LET put == put_secret_value(token,
                                    json_dumps(with_password(current.dict, new_pwd)),
                                    {"AWSCURRENT"})
        IN  Result(put.err, put.stages, put.values, db,
                   Append(reads, "put_secret_value"))

\* The version written before the password of AWSCURRENT is tested:
create_secret_PutBeforeCheck(token, new_pwd) ==
    IF get_secret_value(token, "AWSPENDING").err = "ok"
    THEN Unchanged("ok", <<"get_secret_value">>)
    ELSE
    LET current == get_secret_dict("AWSCURRENT", None)
        reads == <<"get_secret_value", "get_secret_value">>
    IN  IF current.err # "ok" THEN Unchanged(current.err, reads)
        ELSE
        LET put == put_secret_value(token,
                                    json_dumps(with_password(current.dict, new_pwd)),
                                    {"AWSPENDING"})
        IN  Result(IF ~IsPresent(current.dict, "password")
                   THEN "MissingBaseCredential" ELSE put.err,
                   put.stages, put.values, db,
                   Append(reads, "put_secret_value"))

create_secret(token, new_pwd) ==
    IF get_secret_value(token, "AWSPENDING").err = "ok"
    THEN Unchanged("ok", <<"get_secret_value">>)
    ELSE
    LET current == get_secret_dict("AWSCURRENT", None)
        reads == <<"get_secret_value", "get_secret_value">>
    IN  IF current.err # "ok" THEN Unchanged(current.err, reads)
        ELSE IF ~IsPresent(current.dict, "password")
        THEN Unchanged("MissingBaseCredential", reads)
        ELSE
        LET put == put_secret_value(token,
                                    json_dumps(with_password(current.dict, new_pwd)),
                                    {"AWSPENDING"})
        IN  Result(put.err, put.stages, put.values, db,
                   Append(reads, "put_secret_value"))

\* Variants of set_secret, each a slip it could contain.
\* The password of AWSCURRENT applied in place of the pending one:
set_secret_AppliesCurrent(token) ==
    LET pending == get_secret_dict(None, token)
        current == get_secret_dict("AWSCURRENT", None)
        conn == get_db_connection(current.dict)
        read1 == <<"get_secret_value">>
        read2 == <<"get_secret_value", "get_secret_value">>
        opened == Append(read2, "connect")
    IN  IF pending.err # "ok" THEN Unchanged(pending.err, read1)
        ELSE IF current.err # "ok" THEN Unchanged(current.err, read2)
        ELSE IF ~IsPresent(current.dict, "password")
        THEN Unchanged("MissingBaseCredential", read2)
        ELSE IF conn # "ok" THEN Unchanged(conn, Append(read2, "connect_failed"))
        ELSE IF ~IsPresent(pending.dict, "username") \/ ~IsPresent(pending.dict, "password")
        THEN Unchanged("KeyError", Append(opened, "close"))
        ELSE Result("ok", stages, values,
                    alter_user(pending.dict["username"], current.dict["password"]),
                    opened \o <<"execute", "close">>)

\* The test for a password in AWSCURRENT left out:
set_secret_NoPasswordCheck(token) ==
    LET pending == get_secret_dict(None, token)
        current == get_secret_dict("AWSCURRENT", None)
        conn == get_db_connection(current.dict)
        read1 == <<"get_secret_value">>
        read2 == <<"get_secret_value", "get_secret_value">>
        opened == Append(read2, "connect")
    IN  IF pending.err # "ok" THEN Unchanged(pending.err, read1)
        ELSE IF current.err # "ok" THEN Unchanged(current.err, read2)
        ELSE IF conn # "ok" THEN Unchanged(conn, Append(read2, "connect_failed"))
        ELSE IF ~IsPresent(pending.dict, "username") \/ ~IsPresent(pending.dict, "password")
        THEN Unchanged("KeyError", Append(opened, "close"))
        ELSE Result("ok", stages, values,
                    alter_user(pending.dict["username"], pending.dict["password"]),
                    opened \o <<"execute", "close">>)

\* conn.close() after the statement instead of in a finally clause:
set_secret_NoFinally(token) ==
    LET pending == get_secret_dict(None, token)
        current == get_secret_dict("AWSCURRENT", None)
        conn == get_db_connection(current.dict)
        read1 == <<"get_secret_value">>
        read2 == <<"get_secret_value", "get_secret_value">>
        opened == Append(read2, "connect")
    IN  IF pending.err # "ok" THEN Unchanged(pending.err, read1)
        ELSE IF current.err # "ok" THEN Unchanged(current.err, read2)
        ELSE IF ~IsPresent(current.dict, "password")
        THEN Unchanged("MissingBaseCredential", read2)
        ELSE IF conn # "ok" THEN Unchanged(conn, Append(read2, "connect_failed"))
        ELSE IF ~IsPresent(pending.dict, "username") \/ ~IsPresent(pending.dict, "password")
        THEN Unchanged("KeyError", opened)
        ELSE Result("ok", stages, values,
                    alter_user(pending.dict["username"], pending.dict["password"]),
                    opened \o <<"execute", "close">>)

set_secret(token) ==
    LET pending == get_secret_dict(None, token)
        current == get_secret_dict("AWSCURRENT", None)
        conn == get_db_connection(current.dict)
        read1 == <<"get_secret_value">>
        read2 == <<"get_secret_value", "get_secret_value">>
        opened == Append(read2, "connect")
    IN  IF pending.err # "ok" THEN Unchanged(pending.err, read1)
        ELSE IF current.err # "ok" THEN Unchanged(current.err, read2)
        ELSE IF ~IsPresent(current.dict, "password")
        THEN Unchanged("MissingBaseCredential", read2)
        ELSE IF conn # "ok" THEN Unchanged(conn, Append(read2, "connect_failed"))
        ELSE IF ~IsPresent(pending.dict, "username") \/ ~IsPresent(pending.dict, "password")
        THEN Unchanged("KeyError", Append(opened, "close"))
        ELSE Result("ok", stages, values,
                    alter_user(pending.dict["username"], pending.dict["password"]),
                    opened \o <<"execute", "close">>)

\* test_secret with the failure of the connection swallowed:
test_secret_IgnoresFailure(token) ==
    LET pending == get_secret_dict(None, token)
        conn == get_db_connection(pending.dict)
    IN  IF pending.err # "ok" THEN Unchanged(pending.err, <<"get_secret_value">>)
        ELSE IF conn = "KeyError"
        THEN Unchanged(conn, <<"get_secret_value", "connect_failed">>)
        ELSE Unchanged("ok", <<"get_secret_value", "connect", "close">>)

test_secret(token) ==
    LET pending == get_secret_dict(None, token)
        conn == get_db_connection(pending.dict)
    IN  IF pending.err # "ok" THEN Unchanged(pending.err, <<"get_secret_value">>)
        ELSE IF conn # "ok" THEN Unchanged(conn, <<"get_secret_value", "connect_failed">>)
        ELSE Unchanged("ok", <<"get_secret_value", "connect", "close">>)

\* The versions the scan of VersionIdsToStages can stop at: any one carrying
\* AWSCURRENT (the first in the mapping's order), None when there is none.
ScanCurrent ==
    IF Carrying(stages, "AWSCURRENT") = {} THEN {None}
    ELSE Carrying(stages, "AWSCURRENT")

\* finish_secret leaving RemoveFromVersionId out of the call when the scan
\* found no version: the store then attaches the label to the token.
finish_secret_OmitsNone(token, current_version) ==
    IF current_version = token THEN Unchanged("ok", <<"describe_secret">>)
    ELSE IF current_version = None
    THEN Result("ok",
                [v \in DOMAIN stages |->
                    IF v = token THEN stages[v] \cup {"AWSCURRENT"} ELSE stages[v]],
                values, db, <<"describe_secret", "update_secret_version_stage">>)
    ELSE
    LET moved == update_secret_version_stage("AWSCURRENT", token, current_version)
    IN  Result(moved.err, moved.stages, values, db,
               <<"describe_secret", "update_secret_version_stage">>)

finish_secret(token, current_version) ==
    IF current_version = token THEN Unchanged("ok", <<"describe_secret">>)
    ELSE
    LET moved == update_secret_version_stage("AWSCURRENT", token, current_version)
    IN  Result(moved.err, moved.stages, values, db,
               <<"describe_secret", "update_secret_version_stage">>)

\* ------------------------------------------------------------ the handler

\* A call of a phase handler: its name, then the client calls it made.
Entered(name, r) == [r EXCEPT !.calls = <<name>> \o r.calls]

Handler(step, token, new_pwd, current_version) ==
    IF step = "createSecret" THEN Entered("create_secret", create_secret(token, new_pwd))
    ELSE IF step = "setSecret" THEN Entered("set_secret", set_secret(token))
    ELSE IF step = "testSecret" THEN Entered("test_secret", test_secret(token))
    ELSE IF step = "finishSecret"
    THEN Entered("finish_secret", finish_secret(token, current_version))
    ELSE Unchanged("InvalidStep", <<>>)

\* The three checks lambda_handler makes on the metadata of the secret.
PassesChecks(token) ==
    /\ rotationEnabled
    /\ token \in DOMAIN stages
    /\ "AWSPENDING" \in stages[token]

\* Variants of the checks, each a slip the handler could contain.
\* The rotation-enabled check left out:
lambda_handler_NoEnabledCheck(step, token, new_pwd, current_version) ==
    LET metadata == <<"describe_secret">>
    IN  IF token \notin DOMAIN stages THEN Unchanged("UnknownVersion", metadata)
        ELSE IF "AWSPENDING" \notin stages[token] THEN Unchanged("InvalidStage", metadata)
        ELSE LET r == Handler(step, token, new_pwd, current_version)
             IN  [r EXCEPT !.calls = metadata \o r.calls]

\* versions.get(token, []) in place of the membership test: an unknown token
\* is reported as a version that is not pending.
lambda_handler_MergedChecks(step, token, new_pwd, current_version) ==
    LET metadata == <<"describe_secret">>
    IN  IF ~rotationEnabled THEN Unchanged("RotationNotEnabled", metadata)
        ELSE IF token \notin DOMAIN stages \/ "AWSPENDING" \notin stages[token]
        THEN Unchanged("InvalidStage", metadata)
        ELSE LET r == Handler(step, token, new_pwd, current_version)
             IN  [r EXCEPT !.calls = metadata \o r.calls]

\* The AWSPENDING check left out:
lambda_handler_NoPendingCheck(step, token, new_pwd, current_version) ==
    LET metadata == <<"describe_secret">>
    IN  IF ~rotationEnabled THEN Unchanged("RotationNotEnabled", metadata)
        ELSE IF token \notin DOMAIN stages THEN Unchanged("UnknownVersion", metadata)
        ELSE LET r == Handler(step, token, new_pwd, current_version)
             IN  [r EXCEPT !.calls = metadata \o r.calls]

\* The step name validated before the metadata is looked at:
lambda_handler_StepFirst(step, token, new_pwd, current_version) ==
    LET metadata == <<"describe_secret">>
    IN  IF step \notin {"createSecret", "setSecret", "testSecret", "finishSecret"}
        THEN Unchanged("InvalidStep", metadata)
        ELSE IF ~rotationEnabled THEN Unchanged("RotationNotEnabled", metadata)
        ELSE IF token \notin DOMAIN stages THEN Unchanged("UnknownVersion", metadata)
        ELSE IF "AWSPENDING" \notin stages[token] THEN Unchanged("InvalidStage", metadata)
        ELSE LET r == Handler(step, token, new_pwd, current_version)
             IN  [r EXCEPT !.calls = metadata \o r.calls]

\* lambda_handler(event, context) up to its end: the three checks on the
\* metadata, then the phase.
lambda_handler(step, token, new_pwd, current_version) ==
    LET metadata == <<"describe_secret">>
    IN  IF ~rotationEnabled THEN Unchanged("RotationNotEnabled", metadata)
        ELSE IF token \notin DOMAIN stages THEN Unchanged("UnknownVersion", metadata)
        ELSE IF "AWSPENDING" \notin stages[token] THEN Unchanged("InvalidStage", metadata)
        ELSE LET r == Handler(step, token, new_pwd, current_version)
             IN  [r EXCEPT !.calls = metadata \o r.calls]

\* The password a successful put_secret_value stored, for the first one only.
Written(token, r) ==
    IF /\ firstWritten[token] = None
       /\ r.outcome = "ok"
       /\ r.calls # <<>>
       /\ r.calls[Len(r.calls)] = "put_secret_value"
    THEN [firstWritten EXCEPT ![token] = json_loads(r.values[token].SecretString)["password"]]
    ELSE firstWritten

\* What is remembered of an invocation.
Recorded(step, token, r) ==
    [step |-> step, token |-> token, outcome |-> r.outcome, calls |-> r.calls,
     tick |-> 1 - last.tick]

Count(calls, name) == Cardinality({i \in DOMAIN calls : calls[i] = name})

\* The connections an invocation leaves open.
LeftOpen(r) == Count(r.calls, "connect") - Count(r.calls, "close")

\* The start of the end-to-end scenario: rotation enabled, exactly one version
\* labelled AWSCURRENT whose credentials authenticate, and the token registered
\* with the AWSPENDING label and no value.
Qualifying(token) ==
    /\ rotationEnabled
    /\ Cardinality(Carrying(stages, "AWSCURRENT")) = 1
    /\ get_secret_dict("AWSCURRENT", None).err = "ok"
    /\ get_db_connection(get_secret_dict("AWSCURRENT", None).dict) = "ok"
    /\ token \in DOMAIN stages
    /\ stages[token] = {"AWSPENDING"}
    /\ values[token] = Absent

ScenarioOrder == <<"createSecret", "setSecret", "testSecret", "finishSecret">>

\* The scenario advances when, from such a start, the four phases are invoked
\* for the token once each and in order; any other invocation ends it.
NextScenario(step, token) ==
    IF last.step = "none"
    THEN (IF step = "createSecret" /\ Qualifying(token) THEN 1 ELSE 0)
    ELSE IF scenario \in 1..3 /\ token = last.token /\ step = ScenarioOrder[scenario + 1]
    THEN scenario + 1
    ELSE 0

\* What the model remembers besides the state of the store and the database.
Bookkeeping(step, token, r) ==
    /\ last' = Recorded(step, token, r)
    /\ firstWritten' = Written(token, r)
    /\ openConnections' = openConnections + LeftOpen(r)
    /\ openConnections' <= MaxConnections
    /\ succeeded' = IF r.outcome = "ok" THEN succeeded \cup {<<step, token>>}
                    ELSE succeeded
    /\ scenario' = NextScenario(step, token)
    /\ UNCHANGED creators

\* One action for each value of event["Step"]; every token is tried, the
\* password is whatever generate_password returns.
CreateSecret ==
    \E token \in Tokens, new_pwd \in Passwords :
        LET r == lambda_handler("createSecret", token, new_pwd, None)
        IN  /\ stages' = r.stages
            /\ values' = r.values
            /\ db' = r.db
            /\ Bookkeeping("createSecret", token, r)
            /\ UNCHANGED rotationEnabled

SetSecret ==
    \E token \in Tokens :
        LET r == lambda_handler("setSecret", token, None, None)
        IN  /\ stages' = r.stages
            /\ values' = r.values
            /\ db' = r.db
            /\ Bookkeeping("setSecret", token, r)
            /\ UNCHANGED rotationEnabled

TestSecret ==
    \E token \in Tokens :
        LET r == lambda_handler("testSecret", token, None, None)
        IN  /\ stages' = r.stages
            /\ values' = r.values
            /\ db' = r.db
            /\ Bookkeeping("testSecret", token, r)
            /\ UNCHANGED rotationEnabled

FinishSecret ==
    \E token \in Tokens, current_version \in ScanCurrent :
        LET r == lambda_handler("finishSecret", token, None, current_version)
        IN  /\ stages' = r.stages
            /\ values' = r.values
            /\ db' = r.db
            /\ Bookkeeping("finishSecret", token, r)
            /\ UNCHANGED rotationEnabled

OtherStep ==
    \E token \in Tokens :
        LET r == lambda_handler("rotateSecret", token, None, None)
        IN  /\ stages' = r.stages
            /\ values' = r.values
            /\ db' = r.db
            /\ Bookkeeping("rotateSecret", token, r)
            /\ UNCHANGED rotationEnabled

Next == CreateSecret \/ SetSecret \/ TestSecret \/ FinishSecret \/ OtherStep

Spec == Init /\ [][Next]_vars

\* ------------------------------------- concurrent createSecret invocations

\* Several invocations {Step: createSecret, ClientRequestToken: token} for the
\* same token run at once.  Each call of a client is one step: the metadata
\* read and checks of lambda_handler, the look-up of the token's value, the
\* read of AWSCURRENT, the generation of the password, the write.
InitCreate ==
    /\ InitSecret
    /\ \E token \in Tokens :
          creators = [p \in Creators |-> Creator("enter", token, <<>>, None, "none", FALSE)]

Ended(c, outcome) == [c EXCEPT !.pc = "done", !.outcome = outcome]

secret == <<rotationEnabled, stages, values, db>>
history == <<last, firstWritten, openConnections, succeeded, scenario>>

\* lambda_handler: describe_secret and the three checks, then create_secret is
\* entered.
CreateEnter ==
    \E p \in Creators :
        LET c == creators[p]
        IN  /\ c.pc = "enter"
            /\ creators' = [creators EXCEPT ![p] =
                    IF ~rotationEnabled THEN Ended(c, "RotationNotEnabled")
                    ELSE IF c.token \notin DOMAIN stages THEN Ended(c, "UnknownVersion")
                    ELSE IF "AWSPENDING" \notin stages[c.token]
                    THEN Ended(c, "InvalidStage")
                    ELSE [c EXCEPT !.pc = "exists"]]
            /\ UNCHANGED <<secret, history>>

\* get_secret_value(VersionId=token, VersionStage="AWSPENDING"): return when
\* the value exists, go on when the store reports it missing.
CreateExists ==
    \E p \in Creators :
        LET c == creators[p]
        IN  /\ c.pc = "exists"
            /\ creators' = [creators EXCEPT ![p] =
                    IF get_secret_value(c.token, "AWSPENDING").err = "ok"
                    THEN Ended(c, "ok")
                    ELSE [c EXCEPT !.pc = "read"]]
            /\ UNCHANGED <<secret, history>>

\* current_dict = get_secret_dict(stage="AWSCURRENT") and the test for its
\* password.
CreateRead ==
    \E p \in Creators :
        LET c == creators[p]
            current == get_secret_dict("AWSCURRENT", None)
        IN  /\ c.pc = "read"
            /\ creators' = [creators EXCEPT ![p] =
                    IF current.err # "ok" THEN Ended(c, current.err)
                    ELSE IF ~IsPresent(current.dict, "password")
                    THEN Ended(c, "MissingBaseCredential")
                    ELSE [c EXCEPT !.pc = "generate", !.current = current.dict]]
            /\ UNCHANGED <<secret, history>>

\* pending_dict["password"] = generate_password()
CreateGenerate ==
    \E p \in Creators, new_pwd \in Passwords :
        LET c == creators[p]
        IN  /\ c.pc = "generate"
            /\ creators' = [creators EXCEPT ![p] =
                    [c EXCEPT !.pc = "put", !.new_pwd = new_pwd]]
            /\ UNCHANGED <<secret, history>>

\* put_secret_value(ClientRequestToken=token, SecretString=json.dumps(
\* pending_dict), VersionStages=["AWSPENDING"])
CreatePut ==
    \E p \in Creators :
        LET c == creators[p]
            put == put_secret_value(c.token,
                                    json_dumps(with_password(c.current, c.new_pwd)),
                                    {"AWSPENDING"})
        IN  /\ c.pc = "put"
            /\ stages' = put.stages
            /\ values' = put.values
            /\ creators' = [creators EXCEPT ![p] =
                    [c EXCEPT !.pc = "done", !.outcome = put.err,
                              !.wrote = (put.values # values)]]
            /\ UNCHANGED <<rotationEnabled, db, history>>

NextCreate == CreateEnter \/ CreateExists \/ CreateRead \/ CreateGenerate \/ CreatePut

SpecCreate == InitCreate /\ [][NextCreate]_vars

\* ------------------------------------------------------------- properties

Phases == {"createSecret", "setSecret", "testSecret", "finishSecret"}
HandlerNames == {"create_secret", "set_secret", "test_secret", "finish_secret"}

HandlerOf(step) ==
    IF step = "createSecret" THEN "create_secret"
    ELSE IF step = "setSecret" THEN "set_secret"
    ELSE IF step = "testSecret" THEN "test_secret"
    ELSE "finish_secret"

HandlersRun(calls) == {i \in DOMAIN calls : calls[i] \in HandlerNames}

Wrote(calls) ==
    \E i \in DOMAIN calls :
        calls[i] \in {"put_secret_value", "update_secret_version_stage", "execute"}

\* C1: when RotationEnabled is false, every invocation, whatever its Step and
\* token, ends with the rotation-not-enabled error and leaves the stage
\* mapping, the version values and the database password as they were.
C1_RotationNotEnabled ==
    [][~rotationEnabled =>
          /\ last'.outcome = "RotationNotEnabled"
          /\ UNCHANGED <<stages, values, db>>]_vars

C1_Witness ==
    /\ ~rotationEnabled
    /\ last.step = "finishSecret"
    /\ last.token \in DOMAIN stages
    /\ "AWSPENDING" \in stages[last.token]
    /\ last.outcome = "RotationNotEnabled"

\* C2: with rotation enabled, an invocation whose token is no key of
\* VersionIdsToStages ends with the unknown-version error for every Step
\* value, and changes neither the store nor the database.
C2_UnknownVersion ==
    [][(rotationEnabled /\ last'.token \notin DOMAIN stages) =>
          /\ last'.outcome = "UnknownVersion"
          /\ UNCHANGED <<stages, values, db>>]_vars

C2_Witness ==
    /\ rotationEnabled
    /\ last.step = "setSecret"
    /\ last.token \notin DOMAIN stages
    /\ DOMAIN stages # {}
    /\ last.outcome = "UnknownVersion"

\* C3: with rotation enabled and a token that is a key of VersionIdsToStages
\* but does not carry AWSPENDING, every invocation ends with the invalid-stage
\* error, no phase handler is entered, and store and database are unchanged.
C3_InvalidStage ==
    [][(/\ rotationEnabled
        /\ last'.token \in DOMAIN stages
        /\ "AWSPENDING" \notin stages[last'.token]) =>
          /\ last'.outcome = "InvalidStage"
          /\ HandlersRun(last'.calls) = {}
          /\ UNCHANGED <<stages, values, db>>]_vars

C3_Witness ==
    /\ rotationEnabled
    /\ last.step = "createSecret"
    /\ last.token \in DOMAIN stages
    /\ "AWSCURRENT" \in stages[last.token]
    /\ "AWSPENDING" \notin stages[last.token]
    /\ last.outcome = "InvalidStage"

\* C4: the checks (rotation enabled, token known, token pending) come first
\* and in that order: an invocation that fails one of them ends with the error
\* of the first failing check having made no call but describe_secret; one
\* that passes all three enters exactly one handler, the one its Step names;
\* the invalid-step error is raised exactly when all three checks pass and the
\* Step names no phase.
C4_ChecksBeforeDispatch ==
    [][LET step == last'.step
           token == last'.token
           calls == last'.calls
           out == last'.outcome
       IN  /\ calls # <<>> /\ calls[1] = "describe_secret"
           /\ ~rotationEnabled => (out = "RotationNotEnabled" /\ Len(calls) = 1)
           /\ (rotationEnabled /\ token \notin DOMAIN stages) =>
                 (out = "UnknownVersion" /\ Len(calls) = 1)
           /\ (rotationEnabled /\ token \in DOMAIN stages
                 /\ "AWSPENDING" \notin stages[token]) =>
                 (out = "InvalidStage" /\ Len(calls) = 1)
           /\ (PassesChecks(token) /\ step \in Phases) =>
                 (HandlersRun(calls) = {2} /\ calls[2] = HandlerOf(step))
           /\ step \notin Phases => HandlersRun(calls) = {}
           /\ out = "InvalidStep" <=> (PassesChecks(token) /\ step \notin Phases)
           /\ ~PassesChecks(token) => UNCHANGED <<stages, values, db>>]_vars

C4_Witness ==
    /\ PassesChecks(last.token)
    /\ last.step = "rotateSecret"
    /\ last.outcome = "InvalidStep"
    /\ last.calls = <<"describe_secret">>

\* The value create_secret looks for first, and the password a value holds.
PendingValue(token) == get_secret_value(token, "AWSPENDING")
PasswordOf(value) == json_loads(value.SecretString)["password"]
LastPendingValue == PendingValue(last.token)

\* C5: create is idempotent.  Once a create invocation has written the value
\* of a token, that token's version is the one version carrying AWSPENDING,
\* its password stays the one first written, and every create invocation for
\* a token whose AWSPENDING value exists returns successfully having written
\* nothing; a successful create always leaves such a value behind.
C5_CreateIdempotent ==
    /\ [](\A t \in Tokens : firstWritten[t] # None =>
            /\ Carrying(stages, "AWSPENDING") = {t}
            /\ values[t].kind = "SecretString"
            /\ PasswordOf(values[t]) = firstWritten[t])
    /\ [][last'.step = "createSecret" =>
            /\ (PassesChecks(last'.token)
                  /\ (firstWritten[last'.token] # None
                        \/ PendingValue(last'.token).err = "ok")) =>
                  /\ last'.outcome = "ok"
                  /\ ~Wrote(last'.calls)
                  /\ UNCHANGED <<stages, values, db>>
            /\ last'.outcome = "ok" => LastPendingValue'.err = "ok"]_vars

C5_Witness ==
    /\ last.step = "createSecret"
    /\ firstWritten[last.token] # None
    /\ last.outcome = "ok"
    /\ ~Wrote(last.calls)

\* Whether the value labelled AWSCURRENT is a JSON text without a password.
CurrentLacksPassword ==
    LET current == get_secret_dict("AWSCURRENT", None)
    IN  current.err = "ok" /\ ~IsPresent(current.dict, "password")

\* C6 as stated: whenever the AWSCURRENT payload has no password field, a
\* create invocation that passed the checks ends with the
\* missing-base-credential error and writes nothing.
C6_Original ==
    [][(/\ last'.step = "createSecret"
        /\ PassesChecks(last'.token)
        /\ CurrentLacksPassword) =>
          /\ last'.outcome = "MissingBaseCredential"
          /\ ~Wrote(last'.calls)
          /\ UNCHANGED <<stages, values>>]_vars

\* C6 as amended: the error is raised when, besides, the token has no
\* AWSPENDING value yet; when it has one, create returns successfully before
\* AWSCURRENT is read.  Nothing is written in either case.
C6_MissingBaseCredential ==
    [][(/\ last'.step = "createSecret"
        /\ PassesChecks(last'.token)
        /\ CurrentLacksPassword) =>
          /\ last'.outcome =
                (IF PendingValue(last'.token).err = "ok"
                 THEN "ok" ELSE "MissingBaseCredential")
          /\ ~Wrote(last'.calls)
          /\ UNCHANGED <<stages, values>>]_vars

C6_Witness ==
    /\ last.step = "createSecret"
    /\ last.outcome = "MissingBaseCredential"
    /\ CurrentLacksPassword
    /\ PendingValue(last.token).err # "ok"

\* C7: set is idempotent.  A set invocation that follows a successful set
\* invocation for the same token also succeeds, also executes the password
\* change, and leaves the database as the first one left it.
C7_SetIdempotent ==
    [][(/\ last.step = "setSecret"
        /\ last.outcome = "ok"
        /\ last'.step = "setSecret"
        /\ last'.token = last.token) =>
          /\ last'.outcome = "ok"
          /\ \E i \in DOMAIN last'.calls : last'.calls[i] = "execute"
          /\ db' = db]_vars

\* Whether the credentials labelled AWSCURRENT open a connection.
CurrentAuthenticates ==
    \E v \in Carrying(stages, "AWSCURRENT") :
        /\ values[v].kind = "SecretString"
        /\ get_db_connection(json_loads(values[v].SecretString)) = "ok"

Succeeded(l, step) == l.step = step /\ l.outcome = "ok"

Complete(d) ==
    IsPresent(d, "host") /\ IsPresent(d, "username") /\ IsPresent(d, "password")

\* Whether the password in the token's payload is the role's password.
PendingPasswordMatches(token) ==
    LET pending == get_secret_dict(None, token)
    IN  /\ pending.err = "ok"
        /\ IsPresent(pending.dict, "password")
        /\ \E u \in Users : db[u] = pending.dict["password"]

\* C9 as stated: a test invocation that passed the checks succeeds exactly
\* when the password of the token's payload is the role's password, fails
\* with the connection's authentication error otherwise, and changes nothing.
C9_Original ==
    [][(last'.step = "testSecret" /\ PassesChecks(last'.token)) =>
          /\ last'.outcome = "ok" <=> PendingPasswordMatches(last'.token)
          /\ last'.outcome # "ok" => last'.outcome = "OperationalError"
          /\ UNCHANGED <<stages, values, db>>]_vars

\* C9 as amended: that holds when the token's version holds a JSON payload
\* with host, username and password; when it holds no value, a binary value or
\* an incomplete payload, test fails with the error of the read or of the
\* missing key.  Nothing is changed in any case.
C9_TestSecret ==
    [][(last'.step = "testSecret" /\ PassesChecks(last'.token)) =>
          LET pending == get_secret_dict(None, last'.token)
          IN  /\ (pending.err = "ok" /\ Complete(pending.dict)) =>
                    /\ last'.outcome = "ok" <=> PendingPasswordMatches(last'.token)
                    /\ last'.outcome # "ok" => last'.outcome = "OperationalError"
              /\ pending.err # "ok" => last'.outcome = pending.err
              /\ (pending.err = "ok" /\ ~Complete(pending.dict)) =>
                    last'.outcome = "KeyError"
              /\ UNCHANGED <<stages, values, db>>]_vars

C9_Witness ==
    /\ last.step = "testSecret"
    /\ last.outcome = "OperationalError"
    /\ firstWritten[last.token] # None
    /\ ~PendingPasswordMatches(last.token)

\* C10: a finish invocation (past the checks) for a token that already
\* carries AWSCURRENT returns successfully without calling
\* update_secret_version_stage; for a token that does not, when exactly one
\* version carries AWSCURRENT, it succeeds and leaves the token's version as
\* the only one carrying AWSCURRENT.
C10_Finish ==
    [][(last'.step = "finishSecret" /\ PassesChecks(last'.token)) =>
          IF "AWSCURRENT" \in stages[last'.token]
          THEN /\ last'.outcome = "ok"
               /\ ~Wrote(last'.calls)
               /\ UNCHANGED <<stages, values, db>>
          ELSE Cardinality(Carrying(stages, "AWSCURRENT")) = 1 =>
                 /\ last'.outcome = "ok"
                 /\ Carrying(stages', "AWSCURRENT") = {last'.token}
                 /\ Carrying(stages, "AWSCURRENT") \cap Carrying(stages', "AWSCURRENT") = {}
                 /\ UNCHANGED <<values, db>>]_vars

C10_Witness ==
    /\ last.step = "finishSecret"
    /\ last.outcome = "ok"
    /\ Wrote(last.calls)
    /\ Carrying(stages, "AWSCURRENT") = {last.token}
    /\ Cardinality(DOMAIN stages) = 2

\* C11: end to end.  From a secret with rotation enabled, one AWSCURRENT
\* version whose credentials authenticate and a token registered as AWSPENDING
\* without a value, create, set, test and finish invoked once each in that
\* order all succeed; at the end the token's version is the only AWSCURRENT
\* one and the role's password is the password stored under the token.
C11_EndToEnd ==
    /\ scenario >= 1 => last.outcome = "ok"
    /\ scenario = 4 =>
          /\ Carrying(stages, "AWSCURRENT") = {last.token}
          /\ values[last.token].kind = "SecretString"
          /\ \A u \in Users : db[u] = PasswordOf(values[last.token])
          /\ get_db_connection(json_loads(values[last.token].SecretString)) = "ok"

C11_Witness ==
    /\ scenario = 4
    /\ last.step = "finishSecret"
    /\ last.outcome = "ok"
    /\ Cardinality(DOMAIN stages) = 2
    /\ \A u \in Users : db[u] = firstWritten[last.token]

NumCarrying(st, label) == Cardinality(Carrying(st, label))

\* C12: the stage invariant.  In every reachable state at most one version
\* carries AWSCURRENT and at most one AWSPENDING; a secret with exactly one
\* AWSCURRENT version has exactly one after every invocation; and finish moves
\* the label with a single call of the store, so no state between "added" and
\* "removed" exists.
C12_StageInvariant ==
    /\ [](/\ NumCarrying(stages, "AWSCURRENT") <= 1
          /\ NumCarrying(stages, "AWSPENDING") <= 1)
    /\ [][/\ NumCarrying(stages, "AWSCURRENT") = 1 =>
                NumCarrying(stages', "AWSCURRENT") = 1
          /\ stages' # stages =>
                /\ Count(last'.calls, "update_secret_version_stage")
                      + Count(last'.calls, "put_secret_value") = 1
                /\ last'.outcome = "ok"]_vars

C12_Witness ==
    /\ last.step = "finishSecret"
    /\ last.outcome = "ok"
    /\ Count(last.calls, "update_secret_version_stage") = 1
    /\ firstWritten[last.token] # None
    /\ NumCarrying(stages, "AWSCURRENT") = 1
    /\ NumCarrying(stages, "AWSPENDING") = 1
    /\ Carrying(stages, "AWSCURRENT") = Carrying(stages, "AWSPENDING")

\* The calls of an invocation that change durable state.
NumWrites(calls) ==
    Count(calls, "put_secret_value")
        + Count(calls, "update_secret_version_stage")
        + Count(calls, "execute")

\* C13: an invocation that ends in an error leaves the stage mapping, the
\* payloads and the database password as they were; one that succeeds has made
\* at most one mutating call, and only the mutation of its phase: a payload
\* for the token (create), the database password (set), nothing (test), the
\* stage mapping (finish).
C13_NoPartialState ==
    [][/\ last'.outcome # "ok" => UNCHANGED <<stages, values, db>>
       /\ last'.outcome = "ok" =>
            /\ last'.step \in Phases
            /\ NumWrites(last'.calls) <= 1
            /\ last'.step = "createSecret" =>
                  /\ UNCHANGED <<stages, db>>
                  /\ \A v \in DOMAIN values \ {last'.token} : values'[v] = values[v]
            /\ last'.step = "setSecret" => UNCHANGED <<stages, values>>
            /\ last'.step = "testSecret" => UNCHANGED <<stages, values, db>>
            /\ last'.step = "finishSecret" => UNCHANGED <<values, db>>]_vars

C13_Witness ==
    /\ last.step = "setSecret"
    /\ last.outcome = "OperationalError"
    /\ Count(last.calls, "connect_failed") = 1
    /\ firstWritten[last.token] # None
    /\ \A u \in Users : db[u] = firstWritten[last.token]

\* The password of the payload of the version carrying AWSCURRENT.
CurrentPasswords ==
    {PasswordOf(values[v]) : v \in Carrying(stages, "AWSCURRENT")}

\* C15: whenever create writes a version, the password of the written payload
\* differs from the password of the AWSCURRENT payload it was derived from.
C15_NewPasswordDiffers ==
    [][(last'.step = "createSecret" /\ Count(last'.calls, "put_secret_value") = 1
            /\ last'.outcome = "ok")
          => PasswordOf(values'[last'.token]) \notin CurrentPasswords]_vars

\* The payload of the version carrying AWSCURRENT, as a dictionary.
CurrentDicts ==
    {json_loads(values[v].SecretString) : v \in Carrying(stages, "AWSCURRENT")}

\* C16: whenever create writes a version, the version is the token's, it
\* carries exactly AWSPENDING, its payload holds a password and agrees with
\* the AWSCURRENT payload on every other field (neither adding nor dropping
\* one), and the payloads and labels of all other versions, the AWSCURRENT one
\* among them, are as they were.
C16_CreateWrites ==
    [][(last'.step = "createSecret" /\ Count(last'.calls, "put_secret_value") = 1
            /\ last'.outcome = "ok")
          => /\ values[last'.token] = Absent
             /\ values'[last'.token].kind = "SecretString"
             /\ stages'[last'.token] = {"AWSPENDING"}
             /\ \A current \in CurrentDicts :
                  LET written == json_loads(values'[last'.token].SecretString)
                  IN  /\ DOMAIN written = DOMAIN current \cup {"password"}
                      /\ \A k \in DOMAIN current \ {"password"} :
                            written[k] = current[k]
             /\ Carrying(stages, "AWSCURRENT") # {}
             /\ \A v \in DOMAIN values \ {last'.token} : values'[v] = values[v]
             /\ \A v \in DOMAIN stages \ {last'.token} : stages'[v] = stages[v]
             /\ DOMAIN stages' = DOMAIN stages]_vars

C16_Witness ==
    /\ last.step = "createSecret"
    /\ last.outcome = "ok"
    /\ Count(last.calls, "put_secret_value") = 1
    /\ \E v \in Carrying(stages, "AWSCURRENT") :
          /\ v # last.token
          /\ values[v].kind = "SecretString"
          /\ values[v] # values[last.token]
          /\ Without(json_loads(values[v].SecretString), "password")
                = Without(json_loads(values[last.token].SecretString), "password")
          /\ IsPresent(json_loads(values[v].SecretString), "host")

\* Whether the invocation tried to reach the database.
TriedConnection(calls) ==
    Count(calls, "connect") + Count(calls, "connect_failed") > 0

\* C17 as stated: a set invocation that passed the checks while the
\* AWSCURRENT payload has no password field ends with the
\* missing-base-credential error, having tried no connection and leaving the
\* database password as it was.
C17_Original ==
    [][(/\ last'.step = "setSecret"
        /\ PassesChecks(last'.token)
        /\ CurrentLacksPassword) =>
          /\ last'.outcome = "MissingBaseCredential"
          /\ ~TriedConnection(last'.calls)
          /\ UNCHANGED db]_vars

\* C17 as amended: the error is the missing-base-credential one when the
\* token's own payload can be read, which set does first; when it cannot, the
\* error is that of the read.  No connection is tried and the database
\* password stays in either case.
C17_MissingBaseCredential ==
    [][(/\ last'.step = "setSecret"
        /\ PassesChecks(last'.token)
        /\ CurrentLacksPassword) =>
          /\ last'.outcome =
                (IF get_secret_dict(None, last'.token).err = "ok"
                 THEN "MissingBaseCredential"
                 ELSE get_secret_dict(None, last'.token).err)
          /\ last'.outcome # "ok"
          /\ ~TriedConnection(last'.calls)
          /\ UNCHANGED db]_vars

C17_Witness ==
    /\ last.step = "setSecret"
    /\ last.outcome = "MissingBaseCredential"
    /\ ~TriedConnection(last.calls)
    /\ CurrentLacksPassword
    /\ get_secret_dict(None, last.token).err = "ok"
    /\ IsPresent(get_secret_dict(None, last.token).dict, "password")

\* C18: every connection a set or test invocation opened is closed when the
\* invocation ends, in success or in an error raised after the connection was
\* opened; between invocations no connection is open.
C18_ConnectionsClosed ==
    /\ openConnections = 0
    /\ Count(last.calls, "connect") = Count(last.calls, "close")
    /\ Count(last.calls, "connect") <= 1
    /\ Count(last.calls, "connect") = 1 => last.step \in {"setSecret", "testSecret"}

C18_Witness ==
    /\ last.step = "setSecret"
    /\ last.outcome = "KeyError"
    /\ Count(last.calls, "connect") = 1
    /\ Count(last.calls, "close") = 1
    /\ Count(last.calls, "execute") = 0
    /\ openConnections = 0

\* C19: a finish invocation that passed the checks on a secret in which no
\* version carries AWSCURRENT calls the move with no old version, which raises
\* the parameter-validation error; the stage mapping, the payloads and the
\* database stay as they were, and the token's version does not carry
\* AWSCURRENT afterwards.
C19_FinishWithoutCurrent ==
    [][(/\ last'.step = "finishSecret"
        /\ PassesChecks(last'.token)
        /\ Carrying(stages, "AWSCURRENT") = {}) =>
          /\ last'.outcome = "ParamValidationError"
          /\ Count(last'.calls, "update_secret_version_stage") = 1
          /\ UNCHANGED <<stages, values, db>>
          /\ "AWSCURRENT" \notin stages'[last'.token]]_vars

C19_Witness ==
    /\ last.step = "finishSecret"
    /\ last.outcome = "ParamValidationError"
    /\ Carrying(stages, "AWSCURRENT") = {}
    /\ stages[last.token] = {"AWSPENDING"}

\* C20: redelivery changes no state.  An invocation repeating a request (step
\* and token) that has succeeded before, whether it now succeeds or fails,
\* leaves the stage mapping, every payload and the database password as they
\* were; and from the moment finish has succeeded for a token, that token's
\* version is the only one carrying AWSCURRENT.
C20_RedeliverySafe ==
    /\ [][(<<last'.step, last'.token>> \in succeeded) =>
            UNCHANGED <<stages, values, db>>]_vars
    /\ [](\A token \in Tokens :
            <<"finishSecret", token>> \in succeeded =>
                Carrying(stages, "AWSCURRENT") = {token})

C20_Witness ==
    /\ last.step = "createSecret"
    /\ last.outcome = "ok"
    /\ ~Wrote(last.calls)
    /\ firstWritten[last.token] # None
    /\ \A step \in Phases : <<step, last.token>> \in succeeded
    /\ Carrying(stages, "AWSCURRENT") = {last.token}
    /\ \A u \in Users : db[u] = firstWritten[last.token]

\* The creators that reached the write, and those whose write took effect.
Putters == {p \in Creators : creators[p].new_pwd # None /\ creators[p].pc = "done"}
Writers == {p \in Creators : creators[p].wrote}

\* C14: under every interleaving of the concurrent create invocations for one
\* token, at most one write of a value for the token takes effect; a value a
\* version holds is never replaced, so the password of the token's payload
\* never changes once written; and when all invocations have ended and one of
\* them made its write, the token's version is the one AWSPENDING version and
\* holds the one payload written, with the password its writer generated.
C14_ConcurrentCreate ==
    /\ [](Cardinality(Writers) <= 1)
    /\ [][\A v \in Tokens : values[v] # Absent => values'[v] = values[v]]_vars
    /\ []((Putters # {} /\ \A p \in Creators : creators[p].pc = "done") =>
            \A p \in Putters :
                /\ values[creators[p].token].kind # "absent"
                /\ Carrying(stages, "AWSPENDING") = {creators[p].token}
                /\ \A w \in Writers :
                      values[creators[p].token].kind = "SecretString"
                        /\ PasswordOf(values[creators[p].token]) = creators[w].new_pwd
                /\ creators[p].outcome = "ok" =>
                      values[creators[p].token] =
                          StringValue(json_dumps(with_password(creators[p].current,
                                                               creators[p].new_pwd))))

C14_Witness ==
    \E p, q \in Creators :
        /\ creators[p].pc = "done" /\ creators[q].pc = "done"
        /\ creators[p].wrote
        /\ creators[q].outcome = "ResourceExistsException"
        /\ creators[q].new_pwd # creators[p].new_pwd
        /\ PasswordOf(values[creators[p].token]) = creators[p].new_pwd

====
